---------------------------- MODULE Spec2Model ----------------------------
(***************************************************************************)
(* A model of ubrite_tech_demo.py, a Streamlit script.  Streamlit runs the *)
(* whole script top to bottom on the first render and again after every    *)
(* widget interaction ("cycle").  The model follows one script run through *)
(* its data-bearing statements:                                            *)
(*                                                                         *)
(*   clinical  load_demographic_data() and st.write       (lines 71-74)    *)
(*   deg       show_code checkbox, load_deg_results()     (lines 80-87)    *)
(*   pager     gene list, sidebar widgets, run_pager()    (lines 90-101)   *)
(*   coerce    astype(int32), min and max of GS_SIZE      (lines 107-111)  *)
(*   filter    range slider, between(), export link       (lines 114-128)  *)
(*                                                                         *)
(* Text is modelled character by character: a Python str is a sequence of  *)
(* one-character strings, so that splitting, joining, CSV writing and      *)
(* reading, and base64 are computed and not assumed.  The static elements  *)
(* of the page (title, headers, markdown, the image, the references file)  *)
(* carry no data and are left out of the view.                             *)
(***************************************************************************)
EXTENDS Integers, Sequences, FiniteSets, TLC

(***************************************************************************)
(* Python values.  Every value is a record tagged by its type, so that     *)
(* values of different types can be compared.                              *)
(***************************************************************************)
Str(c) == [t |-> "str", v |-> c]

PyInt(n) == [t |-> "int", v |-> n]

NaN == [t |-> "float", v |-> "nan"]

None == [t |-> "None"]

Raised(kind) == [t |-> "exception", kind |-> kind]

IsRaised(x) == x.t = "exception"

DataFrame(cols, dtypes, rows) ==
    [t |-> "DataFrame", columns |-> cols, dtypes |-> dtypes, rows |-> rows]

\* pd.DataFrame([]): no columns and no rows.
EmptyDataFrame == DataFrame(<< >>, [c \in {} |-> "object"], << >>)

Range(s) == {s[i] : i \in 1..Len(s)}

(***************************************************************************)
(* Characters and numerals.                                                *)
(***************************************************************************)
Ascii ==
    <<
       "x00", "x01", "x02", "x03", "x04", "x05", "x06", "x07",
       "x08", "\t", "\n", "x0B", "x0C", "x0D", "x0E", "x0F",
       "x10", "x11", "x12", "x13", "x14", "x15", "x16", "x17",
       "x18", "x19", "x1A", "x1B", "x1C", "x1D", "x1E", "x1F",
       " ", "!", "\"", "#", "$", "%", "&", "'",
       "(", ")", "*", "+", ",", "-", ".", "/",
       "0", "1", "2", "3", "4", "5", "6", "7",
       "8", "9", ":", ";", "<", "=", ">", "?",
       "@", "A", "B", "C", "D", "E", "F", "G",
       "H", "I", "J", "K", "L", "M", "N", "O",
       "P", "Q", "R", "S", "T", "U", "V", "W",
       "X", "Y", "Z", "[", "\\", "]", "^", "_",
       "x60", "a", "b", "c", "d", "e", "f", "g",
       "h", "i", "j", "k", "l", "m", "n", "o",
       "p", "q", "r", "s", "t", "u", "v", "w",
       "x", "y", "z", "{", "|", "}", "~", "x7F"
    >>

\* str.encode(): the UTF-8 bytes of an ASCII text.
Ord(c) == (CHOOSE i \in 1..Len(Ascii) : Ascii[i] = c) - 1

Chr(b) == Ascii[b + 1]

Encode(text) == [i \in 1..Len(text) |-> Ord(text[i])]

Decode(bytes) == [i \in 1..Len(bytes) |-> Chr(bytes[i])]

Digits == <<"0", "1", "2", "3", "4", "5", "6", "7", "8", "9">>

IsDigit(c) == c \in Range(Digits)

DigitValue(c) == (CHOOSE i \in 1..Len(Digits) : Digits[i] = c) - 1

\* int(s) succeeds: a non-empty run of decimal digits.
IsNumeral(s) == Len(s) > 0 /\ \A i \in 1..Len(s) : IsDigit(s[i])

RECURSIVE CharsToInt(_)
CharsToInt(s) ==
    IF s = << >> THEN 0
    ELSE 10 * CharsToInt(SubSeq(s, 1, Len(s) - 1)) + DigitValue(s[Len(s)])

\* str(n) of a non-negative integer.
RECURSIVE IntToChars(_)
IntToChars(n) ==
    IF n < 10 THEN <<Digits[n + 1]>>
    ELSE IntToChars(n \div 10) \o <<Digits[(n % 10) + 1]>>

\* sep.join(parts)
RECURSIVE Join(_, _)
Join(parts, sep) ==
    IF parts = << >> THEN << >>
    ELSE IF Len(parts) = 1 THEN parts[1]
    ELSE parts[1] \o sep \o Join(Tail(parts), sep)

\* The k-th smallest element of a set of integers.
Nth(P, k) == CHOOSE p \in P : Cardinality({q \in P : q < p}) = k - 1

\* text.split(sep) for a one-character separator: one part more than there
\* are separators.
Split(text, sep) ==
    LET P == {i \in 1..Len(text) : text[i] = sep}
        n == Cardinality(P)
    IN  [k \in 1..(n + 1) |->
            SubSeq(text,
                   IF k = 1 THEN 1 ELSE Nth(P, k - 1) + 1,
                   IF k = n + 1 THEN Len(text) ELSE Nth(P, k) - 1)]

\* lines[k:] with k counted from 0.
SliceFrom(s, k) == SubSeq(s, k + 1, Len(s))

\* str(x) as Python prints a cell of a data frame.
PyStr(x) ==
    CASE x.t = "str" -> x.v
      [] x.t = "int" -> IntToChars(x.v)
      [] x.t = "float" -> <<"n", "a", "n">>

(***************************************************************************)
(* pandas.read_csv with the C parser's defaults: records end at a newline  *)
(* outside quotes, blank lines are skipped, fields are split at the        *)
(* separator outside quotes, a doubled quote inside a quoted field is one  *)
(* quote.  The first record is the header.                                 *)
(***************************************************************************)
TokenizerStart == [mode |-> "start", fld |-> << >>, rec |-> << >>, recs |-> << >>]

EndField(st) == [st EXCEPT !.mode = "start", !.fld = << >>, !.rec = Append(st.rec, st.fld)]

EndRecord(st) ==
    [mode |-> "start", fld |-> << >>, rec |-> << >>,
     recs |-> Append(st.recs, Append(st.rec, st.fld))]

Push(st, c, mode) == [st EXCEPT !.mode = mode, !.fld = Append(st.fld, c)]

\* One character through the tokenizer.
TokenizerStep(st, c, sep) ==
    CASE st.mode = "start" ->
            IF c = "\"" THEN [st EXCEPT !.mode = "quoted"]
            ELSE IF c = sep THEN EndField(st)
            ELSE IF c = "\n" THEN (IF st.rec = << >> THEN st ELSE EndRecord(st))
            ELSE Push(st, c, "field")
      [] st.mode = "field" ->
            IF c = sep THEN EndField(st)
            ELSE IF c = "\n" THEN EndRecord(st)
            ELSE Push(st, c, "field")
      [] st.mode = "quoted" ->
            IF c = "\"" THEN [st EXCEPT !.mode = "quote in quoted"]
            ELSE Push(st, c, "quoted")
      [] st.mode = "quote in quoted" ->
            IF c = "\"" THEN Push(st, c, "quoted")
            ELSE IF c = sep THEN EndField(st)
            ELSE IF c = "\n" THEN EndRecord(st)
            ELSE Push(st, c, "field")

\* The characters lo..hi through the tokenizer, by halves.  (The test on the
\* left half's mode never succeeds; it makes TLC finish the left half before
\* it starts on the right one.)
RECURSIVE TokenizerRun(_, _, _, _, _)
TokenizerRun(st, text, sep, lo, hi) ==
    IF lo > hi THEN st
    ELSE IF lo = hi THEN TokenizerStep(st, text[lo], sep)
    ELSE LET mid == (lo + hi) \div 2
             left == TokenizerRun(st, text, sep, lo, mid)
         IN  IF left.mode = "" THEN left
             ELSE TokenizerRun(left, text, sep, mid + 1, hi)

\* At the end of the text an unfinished record is closed.
TokenizerEnd(st) ==
    IF st.mode = "start" /\ st.rec = << >> THEN st.recs ELSE EndRecord(st).recs

Tokenize(text, sep) ==
    TokenizerEnd(TokenizerRun(TokenizerStart, text, sep, 1, Len(text)))

\* The cells read_csv takes for a missing value (a part of its default list).
NaValues ==
    { << >>, <<"n", "a", "n">>, <<"N", "a", "N">>, <<"N", "A">>,
      <<"N", "/", "A">>, <<"n", "u", "l", "l">>, <<"N", "U", "L", "L">> }

\* An empty header cell at position i (from 0) is named "Unnamed: i".
NameUnnamed(header) ==
    [i \in 1..Len(header) |->
        IF header[i] = << >>
        THEN <<"U", "n", "n", "a", "m", "e", "d", ":", " ">> \o IntToChars(i - 1)
        ELSE header[i]]

\* A repeated column name gets the suffix ".k", k counting the earlier ones.
MangleDupes(names) ==
    [i \in 1..Len(names) |->
        LET k == Cardinality({j \in 1..(i - 1) : names[j] = names[i]})
        IN  IF k = 0 THEN names[i] ELSE names[i] \o <<".">> \o IntToChars(k)]

IndexOf(s, x) == CHOOSE i \in 1..Len(s) : s[i] = x

\* The cell of data row r under column c; a row that ends early is padded
\* with empty cells.
CsvCell(data, names, off, r, c) ==
    IF IndexOf(names, c) + off <= Len(data[r])
    THEN data[r][IndexOf(names, c) + off]
    ELSE << >>

\* A column whose cells are all numerals is read as integers; any other
\* column keeps its cells as text, the missing ones as NaN.
IsIntColumn(data, names, off, c) ==
    data # << >> /\ \A r \in 1..Len(data) : IsNumeral(CsvCell(data, names, off, r, c))

CsvValue(data, names, off, r, c) ==
    IF IsIntColumn(data, names, off, c)
    THEN PyInt(CharsToInt(CsvCell(data, names, off, r, c)))
    ELSE IF CsvCell(data, names, off, r, c) \in NaValues THEN NaN
    ELSE Str(CsvCell(data, names, off, r, c))

FrameOf(names, data, off) ==
    IF \E r \in 1..Len(data) : Len(data[r]) > Len(names) + off
    THEN Raised("ParserError")
    ELSE DataFrame(names,
                   [c \in Range(names) |->
                       IF IsIntColumn(data, names, off, c) THEN "int64" ELSE "object"],
                   [r \in 1..Len(data) |->
                       [c \in Range(names) |-> CsvValue(data, names, off, r, c)]])

\* A first data row with one field more than the header: an index column.
IndexOffset(header, data) ==
    IF data # << >> /\ Len(data[1]) = Len(header) + 1 THEN 1 ELSE 0

FrameOfRecords(recs) ==
    IF recs = << >> THEN Raised("EmptyDataError")
    ELSE FrameOf(MangleDupes(NameUnnamed(recs[1])), Tail(recs),
                 IndexOffset(recs[1], Tail(recs)))

ReadCsv(text, sep) == FrameOfRecords(Tokenize(text, sep))

(***************************************************************************)
(* DataFrame.to_csv(index=False): a header line and one line per row,      *)
(* fields separated by commas, every line ended by a newline; a field that *)
(* holds a comma, a quote or a line break is quoted and its quotes are     *)
(* doubled; a missing value is written as the empty field.                 *)
(***************************************************************************)
RECURSIVE DoubleQuotes(_)
DoubleQuotes(s) ==
    IF s = << >> THEN << >>
    ELSE (IF s[1] = "\"" THEN <<"\"", "\"">> ELSE <<s[1]>>) \o DoubleQuotes(Tail(s))

QuoteMinimal(s) ==
    IF \E i \in 1..Len(s) : s[i] \in {",", "\"", "\n", "x0D"}
    THEN <<"\"">> \o DoubleQuotes(s) \o <<"\"">>
    ELSE s

CsvField(x) ==
    CASE x.t = "str" -> QuoteMinimal(x.v)
      [] x.t = "int" -> IntToChars(x.v)
      [] x.t = "float" -> << >>

ToCsv(df) ==
    LET line(fields) == Join(fields, <<",">>) \o <<"\n">>
        head == line([i \in 1..Len(df.columns) |-> QuoteMinimal(df.columns[i])])
        body(r) == line([i \in 1..Len(df.columns) |-> CsvField(df.rows[r][df.columns[i]])])
    IN  head \o Join([r \in 1..Len(df.rows) |-> body(r)], << >>)

(***************************************************************************)
(* base64.b64encode and its inverse, on sequences of bytes (0..255).       *)
(***************************************************************************)
B64Alphabet ==
    <<
       "A", "B", "C", "D", "E", "F", "G", "H", "I", "J", "K", "L", "M", "N", "O", "P",
       "Q", "R", "S", "T", "U", "V", "W", "X", "Y", "Z", "a", "b", "c", "d", "e", "f",
       "g", "h", "i", "j", "k", "l", "m", "n", "o", "p", "q", "r", "s", "t", "u", "v",
       "w", "x", "y", "z", "0", "1", "2", "3", "4", "5", "6", "7", "8", "9", "+", "/"
    >>

B64Char(k) == B64Alphabet[k + 1]

B64Value(c) == (CHOOSE i \in 1..Len(B64Alphabet) : B64Alphabet[i] = c) - 1

RECURSIVE B64Encode(_)
B64Encode(bytes) ==
    IF bytes = << >> THEN << >>
    ELSE IF Len(bytes) = 1
    THEN <<B64Char(bytes[1] \div 4), B64Char((bytes[1] % 4) * 16), "=", "=">>
    ELSE IF Len(bytes) = 2
    THEN <<B64Char(bytes[1] \div 4),
           B64Char((bytes[1] % 4) * 16 + bytes[2] \div 16),
           B64Char((bytes[2] % 16) * 4), "=">>
    ELSE <<B64Char(bytes[1] \div 4),
           B64Char((bytes[1] % 4) * 16 + bytes[2] \div 16),
           B64Char((bytes[2] % 16) * 4 + bytes[3] \div 64),
           B64Char(bytes[3] % 64)>> \o B64Encode(SubSeq(bytes, 4, Len(bytes)))

RECURSIVE B64Decode(_)
B64Decode(chars) ==
    IF Len(chars) < 4 THEN << >>
    ELSE LET a == B64Value(chars[1])
             b == B64Value(chars[2])
             c == IF chars[3] = "=" THEN 0 ELSE B64Value(chars[3])
             d == IF chars[4] = "=" THEN 0 ELSE B64Value(chars[4])
             three == <<a * 4 + b \div 16, (b % 16) * 16 + c \div 4, (c % 4) * 64 + d>>
             kept == IF chars[3] = "=" THEN 1 ELSE IF chars[4] = "=" THEN 2 ELSE 3
         IN  SubSeq(three, 1, kept) \o B64Decode(SubSeq(chars, 5, Len(chars)))

(***************************************************************************)
(* Names the script uses.                                                  *)
(***************************************************************************)
AgeColumn == <<"A", "g", "e", "(", "i", "n", " ", "y", "e", "a", "r", "s", ")">>

SampleNameColumn == <<"S", "a", "m", "p", "l", "e", " ", "N", "a", "m", "e">>

SampleName == <<"J", "X", "1", "2", "T">>

SymbolColumn == <<"s", "y", "m", "b", "o", "l">>

\* The sixteen columns of JX12T_sig_DE_Results.txt; the first has an empty
\* header cell, which read_csv names "Unnamed: 0".
DegSourceColumns ==
    << <<"U", "n", "n", "a", "m", "e", "d", ":", " ", "0">>,
       <<"b", "a", "s", "e", "M", "e", "a", "n">>,
       <<"l", "o", "g", "2", "F", "o", "l", "d", "C", "h", "a", "n", "g", "e">>,
       <<"l", "f", "c", "S", "E">>,
       <<"s", "t", "a", "t">>,
       <<"p", "v", "a", "l", "u", "e">>,
       <<"p", "a", "d", "j">>,
       SymbolColumn,
       <<"e", "n", "s", "e", "m", "b", "l">>,
       <<"e", "x", "t", "e", "r", "n", "a", "l", "_", "g", "e", "n", "e">>,
       <<"g", "e", "n", "e", "_", "b", "i", "o", "t", "y", "p", "e">>,
       <<"d", "e", "s", "c", "r", "i", "p", "t", "i", "o", "n">>,
       <<"c", "h", "r", "o", "m", "o", "s", "o", "m", "e", "_", "n", "a", "m", "e">>,
       <<"s", "t", "a", "r", "t", "_", "p", "o", "s", "i", "t", "i", "o", "n">>,
       <<"e", "n", "d", "_", "p", "o", "s", "i", "t", "i", "o", "n">>,
       <<"s", "t", "r", "a", "n", "d">> >>

\* The column list of line 39: the sample name first.
DegColumns == <<SampleNameColumn>> \o DegSourceColumns

GsSizeColumn == <<"G", "S", "_", "S", "I", "Z", "E">>

GsIdColumn == <<"G", "S", "_", "I", "D">>

Separator == <<"%", "2", "0">>

KEGG == <<"K", "E", "G", "G">>

WikiPathway == <<"W", "i", "k", "i", "P", "a", "t", "h", "w", "a", "y">>

Reactome == <<"R", "e", "a", "c", "t", "o", "m", "e">>

\* The options of the multiselect, line 97.
SourceOptions ==
    { KEGG, WikiPathway, <<"B", "i", "o", "C", "a", "r", "t", "a">>,
      <<"M", "S", "i", "g", "D", "B">>, Reactome, <<"S", "p", "i", "k", "e">> }

DefaultSources == <<KEGG, WikiPathway>>

\* The FDR slider of line 100, in hundredths: 0.0 to 1.0, default 0.05.
FdrMin == 0

FdrMax == 100

FdrDefault == 5

\* st.slider without min_value starts an integer slider at 0 (line 114).
SliderMinValue == 0

Int32Max == 2147483647

HrefPrefix ==
    <<"<", "a", " ", "h", "r", "e", "f", "=", "\"", "d", "a", "t", "a",
      ":", "f", "i", "l", "e", "/", "c", "s", "v", ";", "b", "a", "s", "e",
      "6", "4", ",">>

HrefSuffix ==
    <<"\"", ">", "D", "o", "w", "n", "l", "o", "a", "d", " ", "C", "S",
      "V", " ", "F", "i", "l", "e", "<", "/", "a", ">", " ", "(", "r", "i",
      "g", "h", "t", "-", "c", "l", "i", "c", "k", " ", "a", "n", "d", " ",
      "s", "a", "v", "e", " ", "a", "s", " ", "&", "l", "t", ";", "s", "o",
      "m", "e", "_", "n", "a", "m", "e", "&", "g", "t", ";", ".", "c", "s",
      "v", ")">>

(***************************************************************************)
(* Data frame operations.                                                  *)
(***************************************************************************)
RECURSIVE Without(_, _)
Without(s, x) ==
    IF s = << >> THEN << >>
    ELSE IF s[1] = x THEN Without(Tail(s), x)
    ELSE <<s[1]>> \o Without(Tail(s), x)

\* df[cols]: the named columns in the given order; KeyError when one is absent.
SelectColumns(df, cols) ==
    IF \E i \in 1..Len(cols) : cols[i] \notin Range(df.columns)
    THEN Raised("KeyError")
    ELSE DataFrame(cols,
                   [c \in Range(cols) |-> df.dtypes[c]],
                   [r \in 1..Len(df.rows) |-> [c \in Range(cols) |-> df.rows[r][c]]])

\* As DropColumn, dropping nothing.
DropColumnKeeps(df, col) == df

\* df.drop(columns=[col]); KeyError when the column is absent.
DropColumn(df, col) ==
    IF col \notin Range(df.columns) THEN Raised("KeyError")
    ELSE SelectColumns(df, Without(df.columns, col))

\* df[col] = value: a new last column, or an existing one overwritten.
SetColumn(df, col, value) ==
    DataFrame(IF col \in Range(df.columns) THEN df.columns ELSE Append(df.columns, col),
              [c \in Range(df.columns) \cup {col} |->
                  IF c = col THEN "object" ELSE df.dtypes[c]],
              [r \in 1..Len(df.rows) |->
                  [c \in Range(df.columns) \cup {col} |->
                      IF c = col THEN value ELSE df.rows[r][c]]])

\* df[col].tolist()
ColumnList(df, col) == [r \in 1..Len(df.rows) |-> df.rows[r][col]]

\* pd.DataFrame(list of JSON objects).  An object is a sequence of <<key,
\* value>> pairs; the columns are the keys in order of first appearance and
\* a key an object lacks is NaN in its row.
RECURSIVE KeysOf(_, _)
KeysOf(objs, seen) ==
    IF objs = << >> THEN seen
    ELSE LET obj == objs[1]
             RECURSIVE Add(_, _)
             Add(k, acc) ==
                 IF k > Len(obj) THEN acc
                 ELSE Add(k + 1, IF obj[k][1] \in Range(acc) THEN acc
                                 ELSE Append(acc, obj[k][1]))
         IN  KeysOf(Tail(objs), Add(1, seen))

Lookup(obj, key) ==
    IF \E k \in 1..Len(obj) : obj[k][1] = key
    THEN obj[CHOOSE k \in 1..Len(obj) : obj[k][1] = key][2]
    ELSE NaN

DataFrameFromRecords(objs) ==
    LET cols == KeysOf(objs, << >>)
    IN  DataFrame(cols,
                  [c \in Range(cols) |-> "object"],
                  [r \in 1..Len(objs) |-> [c \in Range(cols) |-> Lookup(objs[r], c)]])

(***************************************************************************)
(* load_demographic_data, lines 12-27.  The response is the outcome of     *)
(* requests.get: whether the transport succeeded, and the body text.       *)
(***************************************************************************)
RelevantCsvText(text) == Join(SliceFrom(Split(text, "\n"), 2), <<"\n">>)

DropAge(df) == IF IsRaised(df) THEN df ELSE DropColumn(df, AgeColumn)

load_demographic_data(response) ==
    IF ~response.ok THEN Raised("ConnectionError")
    ELSE DropAge(ReadCsv(RelevantCsvText(response.text), ","))

(***************************************************************************)
(* The body of load_deg_results, lines 31-40.  The file is the state of    *)
(* JX12T_sig_DE_Results.txt: whether it can be read, and its text.         *)
(***************************************************************************)
TagAndReorder(df) ==
    IF IsRaised(df) THEN df
    ELSE SelectColumns(SetColumn(df, SampleNameColumn, Str(SampleName)), DegColumns)

load_deg_results(file) ==
    IF ~file.exists THEN Raised("FileNotFoundError")
    ELSE TagAndReorder(ReadCsv(file.text, "\t"))

(***************************************************************************)
(* The gene list, line 90.                                                 *)
(***************************************************************************)
\* As DropNan, keeping every element.
DropNanKeepsAll(xs) == xs

RECURSIVE DropNan(_)
DropNan(xs) ==
    IF xs = << >> THEN << >>
    ELSE IF PyStr(xs[1]) # <<"n", "a", "n">>
    THEN <<xs[1]>> \o DropNan(Tail(xs))
    ELSE DropNan(Tail(xs))

GeneList(deg) == DropNan(ColumnList(deg, SymbolColumn))

(***************************************************************************)
(* run_pager, lines 44-62.  PagerParams is the dict handed to              *)
(* requests.post as the form data; str.join raises TypeError on an element *)
(* that is not a str.                                                      *)
(***************************************************************************)
PercentJoin(strs) == Join([i \in 1..Len(strs) |-> strs[i]], Separator)

PagerParams(gene_list, source_list, fdr_value) ==
    IF \E i \in 1..Len(gene_list) : gene_list[i].t # "str"
    THEN Raised("TypeError")
    ELSE [t |-> "dict",
          genes |-> PercentJoin([i \in 1..Len(gene_list) |-> gene_list[i].v]),
          source |-> PercentJoin(source_list),
          type |-> <<"A", "l", "l">>,
          sim |-> <<"0", ".", "0", "1">>,
          olap |-> <<"1">>,
          organism |-> <<"A", "l", "l">>,
          cohesion |-> <<"0">>,
          pvalue |-> 5,
          FDR |-> fdr_value,
          ge |-> 1,
          le |-> 2000]

\* Line 62: response.json() raises on a body that is not JSON; the status
\* code is never looked at.
PagerResult(response) ==
    IF ~response.ok THEN Raised("ConnectionError")
    ELSE IF ~response.body.json THEN Raised("JSONDecodeError")
    ELSE DataFrameFromRecords(response.body.array)

(***************************************************************************)
(* Lines 107-111: astype({'GS_SIZE': 'int32'}), then min and max.          *)
(***************************************************************************)
AsTypeInt32(df, col) ==
    IF col \notin Range(df.columns) THEN Raised("KeyError")
    ELSE IF \E r \in 1..Len(df.rows) :
                \/ df.rows[r][col].t # "str"
                \/ ~IsNumeral(df.rows[r][col].v)
    THEN Raised("ValueError")
    ELSE IF \E r \in 1..Len(df.rows) : CharsToInt(df.rows[r][col].v) > Int32Max
    THEN Raised("OverflowError")
    ELSE DataFrame(df.columns,
                   [c \in Range(df.columns) |-> IF c = col THEN "int32" ELSE df.dtypes[c]],
                   [r \in 1..Len(df.rows) |->
                       [c \in Range(df.columns) |->
                           IF c = col THEN PyInt(CharsToInt(df.rows[r][c].v))
                           ELSE df.rows[r][c]]])

Minimum(xs) == CHOOSE m \in Range(xs) : \A x \in Range(xs) : m <= x

Maximum(xs) == CHOOSE m \in Range(xs) : \A x \in Range(xs) : x <= m

GsSizes(df) == [r \in 1..Len(df.rows) |-> df.rows[r][GsSizeColumn].v]

(***************************************************************************)
(* Lines 114-115: the range slider and the filter.  A Streamlit widget is  *)
(* identified by its arguments; it returns the value the user last gave    *)
(* the widget of that identity, and its default value otherwise.           *)
(***************************************************************************)
SliderId(lo, hi) ==
    [min_value |-> SliderMinValue, max_value |-> hi, value |-> <<lo, hi>>]

SliderValue(stored, id) ==
    IF stored.t = "widget" /\ stored.id = id THEN stored.value ELSE id.value

\* As SelectBetween, with the upper end of the range left out.
RECURSIVE SelectBetweenHalfOpen(_, _, _)
SelectBetweenHalfOpen(rows, lo, hi) ==
    IF rows = << >> THEN << >>
    ELSE IF lo <= rows[1][GsSizeColumn].v /\ rows[1][GsSizeColumn].v < hi
    THEN <<rows[1]>> \o SelectBetweenHalfOpen(Tail(rows), lo, hi)
    ELSE SelectBetweenHalfOpen(Tail(rows), lo, hi)

RECURSIVE SelectBetween(_, _, _)
SelectBetween(rows, lo, hi) ==
    IF rows = << >> THEN << >>
    ELSE IF lo <= rows[1][GsSizeColumn].v /\ rows[1][GsSizeColumn].v <= hi
    THEN <<rows[1]>> \o SelectBetween(Tail(rows), lo, hi)
    ELSE SelectBetween(Tail(rows), lo, hi)

Between(df, lo, hi) ==
    DataFrame(df.columns, df.dtypes, SelectBetween(df.rows, lo, hi))

(***************************************************************************)
(* Lines 125-127: the export link.                                         *)
(***************************************************************************)
ExportLink(csv_text) == HrefPrefix \o B64Encode(Encode(csv_text)) \o HrefSuffix

(***************************************************************************)
(* The state.  The script's own variables keep the names they have in the  *)
(* source; they are None until the statement that assigns them has run in  *)
(* the current cycle.                                                      *)
(*                                                                         *)
(*   pc            where the current script run stands                     *)
(*   view          the elements the current run has sent to the browser    *)
(*   io            the transfers the current run has made, in order        *)
(*   cache         the entry st.cache keeps for load_deg_results           *)
(*   deg_file      JX12T_sig_DE_Results.txt on disk                        *)
(*   deg_body_ran  whether the body of load_deg_results has ever executed  *)
(*   show_code, sources, fdr, gs_slider    what the user last gave each    *)
(*                 widget; gs_slider also holds the widget's identity      *)
(*   clinical_response, pager_response     the HTTP responses received     *)
(***************************************************************************)
VARIABLES pc, view, io, cache, deg_file, deg_body_ran,
          show_code, sources, fdr, gs_slider,
          clinical_response, clinical_data, deg_results, genes, params,
          pager_response, pager_output, min_gs_size, max_gs_size,
          user_min, user_max, filtered_output, csv, href

widgets == <<show_code, sources, fdr, gs_slider>>

process == <<cache, deg_file, deg_body_ran>>

locals ==
    <<clinical_response, clinical_data, deg_results, genes, params,
      pager_response, pager_output, min_gs_size, max_gs_size,
      user_min, user_max, filtered_output, csv, href>>

vars == <<pc, view, io, widgets, process, locals>>

(***************************************************************************)
(* Inputs.  A text file or body is given by its lines.                     *)
(***************************************************************************)
MaxLines == 4

MaxDegRows == 3

MaxRows == 2

TextOf(lines) == Join([i \in 1..Len(lines) |-> lines[i] \o <<"\n">>], << >>)

SeqsUpTo(S, n) == UNION {[1..k -> S] : k \in 0..n}

\* Clinical service: two preamble lines, a header, one subject.
ClinicalOk ==
    [ok |-> TRUE,
     text |-> TextOf(<< <<"#", "1">>, <<"#", "2">>,
                        <<"i", "d", ",">> \o AgeColumn \o <<",", "s", "e", "x">>,
                        <<"7", ",", "-", "1", ",", "F">> >>)]

ClinicalNoAge ==
    [ok |-> TRUE,
     text |-> TextOf(<< <<"#", "1">>, <<"#", "2">>,
                        <<"i", "d", ",", "s", "e", "x">>, <<"7", ",", "F">> >>)]

ClinicalDown == [ok |-> FALSE, text |-> << >>]

ClinicalResponses == {ClinicalOk, ClinicalNoAge, ClinicalDown}

ClinicalLines ==
    { <<"#">>, <<"i", "d", ",">> \o AgeColumn, <<"i", "d", ",", "x">>, <<"7", ",", "8">> }

AnyClinicalResponses ==
    {ClinicalDown} \cup
    {[ok |-> TRUE, text |-> TextOf(ls)] : ls \in SeqsUpTo(ClinicalLines, MaxLines)}

\* The DEG file with the given header cells and symbol cells; every other
\* cell is a dot.
DegHeader ==
    [i \in 1..Len(DegSourceColumns) |-> IF i = 1 THEN << >> ELSE DegSourceColumns[i]]

DegFile(header, symbols) ==
    LET row(sym) ==
            Join([i \in 1..Len(header) |->
                     IF header[i] = SymbolColumn THEN sym ELSE <<".">>], <<"\t">>)
    IN  [exists |-> TRUE,
         text |-> TextOf(<<Join(header, <<"\t">>)>>
                         \o [r \in 1..Len(symbols) |-> row(symbols[r])])]

TP53 == <<"T", "P", "5", "3">>

EGFR == <<"E", "G", "F", "R">>

DegFileA == DegFile(DegHeader, <<TP53, <<"n", "a", "n">>, EGFR>>)

DegFileB == DegFile(DegHeader, <<EGFR, EGFR>>)

\* A file that lost its symbol column, and no file at all.
DegFileDrift == DegFile(Without(DegHeader, SymbolColumn), <<TP53>>)

DegFileMissing == [exists |-> FALSE, text |-> << >>]

DegFiles == {DegFileA, DegFileB, DegFileDrift, DegFileMissing}

SymbolCells ==
    { TP53, <<"n", "a", "n">>, << >>, <<"A", " ", "B">>, <<"C", "+">> }

AnyDegFiles == {DegFile(DegHeader, syms) : syms \in SeqsUpTo(SymbolCells, MaxDegRows)}

\* Enrichment service: a JSON array of objects, or a body that is not JSON.
Pag(id, size) == << <<GsIdColumn, Str(id)>>, <<GsSizeColumn, Str(size)>> >>

JsonArray(objs) == [json |-> TRUE, array |-> objs]

NotJson == [json |-> FALSE, array |-> << >>]

PagerReply(status, body) == [ok |-> TRUE, status |-> status, body |-> body]

PagerDown == [ok |-> FALSE, status |-> 0, body |-> NotJson]

PagerResponses ==
    { PagerReply(200, JsonArray(<<Pag(<<"a">>, <<"3">>), Pag(<<"b">>, <<"1">>)>>)),
      PagerReply(200, JsonArray(<<Pag(<<"c">>, <<"2">>)>>)),
      PagerReply(200, JsonArray(<< >>)),
      PagerReply(200, JsonArray(<<Pag(<<"a">>, <<"x">>)>>)),
      PagerReply(200, JsonArray(<< <<<<GsIdColumn, Str(<<"a">>)>>>> >>)),
      PagerReply(200, NotJson),
      PagerReply(500, JsonArray(<<Pag(<<"e">>, <<"2">>)>>)),
      PagerReply(500, NotJson),
      PagerDown }

PagIds == { <<"a">>, <<",", "\"">> }

PagSizes == { <<"2">>, <<"1", "0">> }

AnyPags == {Pag(id, size) : id \in PagIds, size \in PagSizes}

AnyPagerResponses ==
    {PagerReply(200, JsonArray(objs)) : objs \in SeqsUpTo(AnyPags, MaxRows)}

SourceChoices == {DefaultSources, << >>}

FdrChoices == {FdrDefault, FdrMax}

(***************************************************************************)
(* The view.  Each st.* call sends its element to the browser when it is   *)
(* made.  An exception that leaves the script is not caught by the script: *)
(* Streamlit ends the run and appends an exception element to what the run *)
(* has already sent.                                                       *)
(***************************************************************************)
Text(body) == [kind |-> "text", body |-> body]

Table(name, df) == [kind |-> "dataframe", name |-> name, data |-> df]

Widget(label, value) == [kind |-> "widget", label |-> label, value |-> value]

Code == [kind |-> "code", name |-> "echo"]

Markdown(name, body) == [kind |-> "markdown", name |-> name, body |-> body]

ExceptionBox(at, exc) == [kind |-> "exception", at |-> at, error |-> exc.kind]

\* As Aborted, with the earlier elements taken back.
AbortedAlone(sent, at, exc) == <<ExceptionBox(at, exc)>>

Aborted(sent, at, exc) == Append(sent, ExceptionBox(at, exc))

Shows(kind, name) ==
    \E i \in 1..Len(view) : view[i].kind = kind /\ view[i].name = name

HasWidget(label) ==
    \E i \in 1..Len(view) : view[i].kind = "widget" /\ view[i].label = label

Start(files) ==
    /\ pc = "idle"
    /\ view = << >>
    /\ io = << >>
    /\ cache = None
    /\ deg_file \in files
    /\ deg_body_ran = FALSE
    /\ show_code = FALSE
    /\ sources = DefaultSources
    /\ fdr = FdrDefault
    /\ gs_slider = None
    /\ clinical_response = None
    /\ clinical_data = None
    /\ deg_results = None
    /\ genes = None
    /\ params = None
    /\ pager_response = None
    /\ pager_output = None
    /\ min_gs_size = None
    /\ max_gs_size = None
    /\ user_min = None
    /\ user_max = None
    /\ filtered_output = None
    /\ csv = None
    /\ href = None

Init == Start(DegFiles)

(***************************************************************************)
(* A script run starts from the top with none of its variables assigned.   *)
(***************************************************************************)
Restart ==
    /\ pc' = "clinical"
    /\ view' = << >>
    /\ io' = << >>
    /\ clinical_response' = None
    /\ clinical_data' = None
    /\ deg_results' = None
    /\ genes' = None
    /\ params' = None
    /\ pager_response' = None
    /\ pager_output' = None
    /\ min_gs_size' = None
    /\ max_gs_size' = None
    /\ user_min' = None
    /\ user_max' = None
    /\ filtered_output' = None
    /\ csv' = None
    /\ href' = None

AtRest == pc \in {"ready", "failed"}

\* The first render of the page.
InitialRender ==
    /\ pc = "idle"
    /\ Restart
    /\ UNCHANGED <<widgets, process>>

\* The user asks for a rerun without touching a widget.
Rerun ==
    /\ AtRest
    /\ Restart
    /\ UNCHANGED <<widgets, process>>

\* The user toggles the checkbox of line 80.
ToggleShowCode ==
    /\ AtRest
    /\ HasWidget("Show source code")
    /\ show_code' = ~show_code
    /\ Restart
    /\ UNCHANGED <<sources, fdr, gs_slider, process>>

\* The user changes the multiselect of line 96.
ChangeSources(choices) ==
    /\ AtRest
    /\ HasWidget("Available Data Sources")
    /\ \E s \in choices \ {sources} : sources' = s
    /\ Restart
    /\ UNCHANGED <<show_code, fdr, gs_slider, process>>

\* The user moves the slider of line 100.
ChangeFdr(choices) ==
    /\ AtRest
    /\ HasWidget("FDR Cutoff")
    /\ \E f \in choices \ {fdr} : fdr' = f
    /\ Restart
    /\ UNCHANGED <<show_code, sources, gs_slider, process>>

\* The user moves an end of the range slider of line 114: any range within
\* the slider's bounds.
MoveSlider ==
    /\ pc = "ready"
    /\ HasWidget("GS_SIZE Range")
    /\ \E lo, hi \in SliderMinValue..max_gs_size :
          /\ lo <= hi
          /\ <<lo, hi>> # <<user_min, user_max>>
          /\ gs_slider' = [t |-> "widget",
                           id |-> SliderId(min_gs_size, max_gs_size),
                           value |-> <<lo, hi>>]
    /\ Restart
    /\ UNCHANGED <<show_code, sources, fdr, process>>

\* Somebody replaces, removes or restores the DEG file on disk.
ChangeFile(files) ==
    /\ \E f \in files \ {deg_file} : deg_file' = f
    /\ UNCHANGED <<pc, view, io, widgets, cache, deg_body_ran, locals>>

(***************************************************************************)
(* Lines 71-74: the clinical data.                                         *)
(***************************************************************************)
LoadDemographicData(responses) ==
    /\ pc = "clinical"
    /\ \E r \in responses :
          LET result == load_demographic_data(r) IN
          /\ clinical_response' = r
          /\ io' = Append(io, "GET getalli2b2demographics")
          /\ IF IsRaised(result)
             THEN /\ view' = Aborted(Append(view, Text("Loading query results ... ")),
                                     "clinical", result)
                  /\ pc' = "failed"
                  /\ clinical_data' = clinical_data
             ELSE /\ view' = view \o <<Text("Loading query results ... done!"),
                                       Table("clinical_data", result)>>
                  /\ pc' = "deg"
                  /\ clinical_data' = result
    /\ UNCHANGED <<widgets, process, deg_results, genes, params, pager_response,
                   pager_output, min_gs_size, max_gs_size, user_min, user_max,
                   filtered_output, csv, href>>

(***************************************************************************)
(* Lines 80-87 with the st.cache of line 30: the body of load_deg_results  *)
(* runs only when the cache holds no entry, and a body that raises leaves  *)
(* no entry.  With the checkbox ticked st.echo shows the source lines too. *)
(***************************************************************************)
\* As CacheHit, for a load_deg_results without its st.cache.
CacheHitNever(entry) == FALSE

CacheHit(entry) == entry.t = "DataFrame"

LoadDegResults ==
    /\ pc = "deg"
    /\ LET hit == CacheHit(cache)
           result == IF hit THEN cache ELSE load_deg_results(deg_file)
           sent == Append(view, Widget("Show source code", show_code))
       IN  /\ deg_body_ran' = (deg_body_ran \/ ~hit)
           /\ io' = IF hit THEN io ELSE Append(io, "read JX12T_sig_DE_Results.txt")
           /\ IF IsRaised(result)
              THEN /\ view' = Aborted(sent, "deg", result)
                   /\ pc' = "failed"
                   /\ UNCHANGED <<cache, deg_results>>
              ELSE /\ view' = sent \o (IF show_code THEN <<Code>> ELSE << >>)
                                   \o <<Table("deg_results", result)>>
                   /\ pc' = "pager"
                   /\ cache' = result
                   /\ deg_results' = result
    /\ UNCHANGED <<widgets, deg_file, clinical_response, clinical_data, genes, params,
                   pager_response, pager_output, min_gs_size, max_gs_size,
                   user_min, user_max, filtered_output, csv, href>>

(***************************************************************************)
(* Lines 90-101: the gene list, the sidebar widgets and run_pager.         *)
(***************************************************************************)
RunPager(responses) ==
    /\ pc = "pager"
    /\ LET gene_list == GeneList(deg_results)
           form == PagerParams(gene_list, sources, fdr)
           sent == view \o <<Widget("Available Data Sources", sources),
                             Widget("FDR Cutoff", fdr)>>
       IN  /\ genes' = gene_list
           /\ IF IsRaised(form)
              THEN /\ view' = Aborted(sent, "pager", form)
                   /\ pc' = "failed"
                   /\ UNCHANGED <<io, params, pager_response, pager_output>>
              ELSE \E r \in responses :
                      LET result == PagerResult(r) IN
                      /\ params' = form
                      /\ pager_response' = r
                      /\ io' = Append(io, "POST pagerapi")
                      /\ IF IsRaised(result)
                         THEN /\ view' = Aborted(sent, "pager", result)
                              /\ pc' = "failed"
                              /\ pager_output' = pager_output
                         ELSE /\ view' = sent
                              /\ pc' = "coerce"
                              /\ pager_output' = result
    /\ UNCHANGED <<widgets, process, clinical_response, clinical_data, deg_results,
                   min_gs_size, max_gs_size, user_min, user_max,
                   filtered_output, csv, href>>

(***************************************************************************)
(* Lines 107-111: GS_SIZE to integers, then its minimum and maximum; min() *)
(* and max() raise ValueError on an empty list.                            *)
(***************************************************************************)
WithMinMax(typed) ==
    IF IsRaised(typed) THEN typed
    ELSE IF typed.rows = << >> THEN Raised("ValueError")
    ELSE [t |-> "coerced", data |-> typed,
          lo |-> Minimum(GsSizes(typed)), hi |-> Maximum(GsSizes(typed))]

\* As Coerced, with an empty frame let through with a range of 0 to 0.
CoercedLenient(df) ==
    IF df.rows = << >> THEN [t |-> "coerced", data |-> df, lo |-> 0, hi |-> 0]
    ELSE WithMinMax(AsTypeInt32(df, GsSizeColumn))

Coerced(df) == WithMinMax(AsTypeInt32(df, GsSizeColumn))

CoerceGsSize ==
    /\ pc = "coerce"
    /\ LET result == Coerced(pager_output) IN
       IF IsRaised(result)
       THEN /\ view' = Aborted(view, "coerce", result)
            /\ pc' = "failed"
            /\ UNCHANGED <<pager_output, min_gs_size, max_gs_size>>
       ELSE /\ pager_output' = result.data
            /\ min_gs_size' = result.lo
            /\ max_gs_size' = result.hi
            /\ pc' = "filter"
            /\ view' = view
    /\ UNCHANGED <<io, widgets, process, clinical_response, clinical_data, deg_results,
                   genes, params, pager_response, user_min, user_max,
                   filtered_output, csv, href>>

(***************************************************************************)
(* Lines 114-128: the range slider, the filtered table, the row count and  *)
(* the export link.  st.slider raises when its value lies outside its      *)
(* bounds.                                                                 *)
(***************************************************************************)
\* As Exported, writing the unfiltered frame.
ExportedUnfiltered(filtered, unfiltered) == unfiltered

\* Line 125 writes filtered_output, not pager_output.
Exported(filtered, unfiltered) == filtered

FilterAndExport ==
    /\ pc = "filter"
    /\ LET id == SliderId(min_gs_size, max_gs_size)
           chosen == SliderValue(gs_slider, id)
           shown == Between(pager_output, chosen[1], chosen[2])
           text == ToCsv(Exported(shown, pager_output))
           link == ExportLink(text)
       IN  IF ~(id.min_value <= id.value[1] /\ id.value[2] <= id.max_value)
           THEN /\ view' = Aborted(view, "filter", Raised("StreamlitAPIException"))
                /\ pc' = "failed"
                /\ UNCHANGED <<user_min, user_max, filtered_output, csv, href>>
           ELSE /\ user_min' = chosen[1]
                /\ user_max' = chosen[2]
                /\ filtered_output' = shown
                /\ csv' = text
                /\ href' = link
                /\ view' = view \o <<Widget("GS_SIZE Range", id),
                                     Table("filtered_output", shown),
                                     Markdown("row_count", Len(shown.rows)),
                                     Markdown("href", link)>>
                /\ pc' = "ready"
    /\ UNCHANGED <<io, widgets, process, clinical_response, clinical_data, deg_results,
                   genes, params, pager_response, pager_output,
                   min_gs_size, max_gs_size>>

(***************************************************************************)
(* The dashboard: every interaction, every step, small sets of responses.  *)
(***************************************************************************)
Next ==
    \/ InitialRender
    \/ Rerun
    \/ ToggleShowCode
    \/ ChangeSources(SourceChoices)
    \/ ChangeFdr(FdrChoices)
    \/ MoveSlider
    \/ ChangeFile(DegFiles)
    \/ LoadDemographicData(ClinicalResponses)
    \/ LoadDegResults
    \/ RunPager(PagerResponses)
    \/ CoerceGsSize
    \/ FilterAndExport

Spec == Init /\ [][Next]_vars

(***************************************************************************)
(* The same steps over every clinical response of up to MaxLines lines.    *)
(***************************************************************************)
NextClinical ==
    \/ InitialRender
    \/ Rerun
    \/ LoadDemographicData(AnyClinicalResponses)

SpecClinical == Init /\ [][NextClinical]_vars

(***************************************************************************)
(* The same steps over every DEG file of up to MaxDegRows rows.            *)
(***************************************************************************)
InitGenes == Start(AnyDegFiles)

GenesReply == PagerReply(200, JsonArray(<<Pag(<<"a">>, <<"3">>)>>))

NextGenes ==
    \/ InitialRender
    \/ LoadDemographicData({ClinicalOk})
    \/ LoadDegResults
    \/ RunPager({GenesReply})

SpecGenes == InitGenes /\ [][NextGenes]_vars

(***************************************************************************)
(* The same steps over every enrichment response of up to MaxRows records  *)
(* and every movement of the range slider.                                 *)
(***************************************************************************)
InitFilter == Start({DegFileA})

NextFilter ==
    \/ InitialRender
    \/ MoveSlider
    \/ LoadDemographicData({ClinicalOk})
    \/ LoadDegResults
    \/ RunPager(AnyPagerResponses)
    \/ CoerceGsSize
    \/ FilterAndExport

SpecFilter == InitFilter /\ [][NextFilter]_vars

(***************************************************************************)
(* Properties of the range filter, lines 107-128.                          *)
(***************************************************************************)
\* The rendered element of the given name, for a name that is rendered.
Rendered(kind, name) ==
    view[CHOOSE i \in 1..Len(view) : view[i].kind = kind /\ view[i].name = name]

RenderedWidget(label) ==
    view[CHOOSE i \in 1..Len(view) : view[i].kind = "widget" /\ view[i].label = label]

\* The positions of the enrichment records whose GS_SIZE lies in the range
\* the user selected, both ends included.
Kept ==
    {j \in 1..Len(pager_output.rows) :
        /\ user_min <= pager_output.rows[j][GsSizeColumn].v
        /\ pager_output.rows[j][GsSizeColumn].v <= user_max}

\* The user's own selection, not the slider's default, is in effect.
UserSelected ==
    /\ gs_slider.t = "widget"
    /\ gs_slider.id = SliderId(min_gs_size, max_gs_size)
    /\ <<user_min, user_max>> = gs_slider.value

\* C1: in a cycle that ends ready, the filtered output is exactly the
\* enrichment records r with user_min <= r.GS_SIZE <= user_max, both ends
\* inclusive, in their original order, none added, dropped or altered, and it
\* is the table the cycle renders.
C1_RangeFilter ==
    pc = "ready" =>
        /\ filtered_output.columns = pager_output.columns
        /\ Len(filtered_output.rows) = Cardinality(Kept)
        /\ \A i \in 1..Len(filtered_output.rows) :
              filtered_output.rows[i] = pager_output.rows[Nth(Kept, i)]
        /\ Rendered("dataframe", "filtered_output").data = filtered_output
        /\ Rendered("markdown", "row_count").body = Cardinality(Kept)

\* A cycle where the user's selection keeps the record at an end of the
\* range and drops another record.
C1_Witness ==
    /\ pc = "ready"
    /\ UserSelected
    /\ Len(pager_output.rows) = 2
    /\ Len(filtered_output.rows) = 1
    /\ filtered_output.rows[1][GsSizeColumn].v = user_max
    /\ user_min < user_max

\* The text inside the href attribute of the export link.
Payload(link) ==
    SubSeq(link, Len(HrefPrefix) + 1, Len(link) - Len(HrefSuffix))

\* A table as text: the line of column names, then row by row the text of
\* each cell.
AsText(df) ==
    <<df.columns>> \o
    [r \in 1..Len(df.rows) |->
        [c \in 1..Len(df.columns) |-> PyStr(df.rows[r][df.columns[c]])]]

\* C4: in a cycle that ends ready, the export link is the fixed anchor around
\* a base64 text; decoding that text and parsing it as CSV gives back the
\* table the same cycle renders as the filtered output: same columns, same
\* rows, same order, cell for cell.
C4_ExportRoundTrip ==
    pc = "ready" =>
        /\ Rendered("markdown", "href").body = href
        /\ SubSeq(href, 1, Len(HrefPrefix)) = HrefPrefix
        /\ SubSeq(href, Len(href) - Len(HrefSuffix) + 1, Len(href)) = HrefSuffix
        /\ Tokenize(Decode(B64Decode(Payload(href))), ",")
             = AsText(Rendered("dataframe", "filtered_output").data)
        /\ ReadCsv(Decode(B64Decode(Payload(href))), ",").columns
             = filtered_output.columns

\* A cycle whose filtered table is a proper part of the enrichment records
\* and holds an identifier with a comma and a quote in it.
C4_Witness ==
    /\ pc = "ready"
    /\ UserSelected
    /\ Len(filtered_output.rows) = 1
    /\ Len(pager_output.rows) = 2
    /\ filtered_output.rows[1][GsIdColumn].v = <<",", "\"">>

\* C7: in a cycle that ends ready, the range slider's lower bound is the
\* observed minimum GS_SIZE and its upper bound the observed maximum, its
\* default is that range, and the range in effect lies within the observed
\* minimum and maximum.
C7_SliderBounds ==
    pc = "ready" =>
        /\ RenderedWidget("GS_SIZE Range").value.min_value = min_gs_size
        /\ RenderedWidget("GS_SIZE Range").value.max_value = max_gs_size
        /\ RenderedWidget("GS_SIZE Range").value.value
             = <<min_gs_size, max_gs_size>>
        /\ min_gs_size <= user_min
        /\ user_max <= max_gs_size

(***************************************************************************)
(* Properties of the gene list and of the form sent to the enrichment      *)
(* service, lines 44-62 and 90.                                            *)
(***************************************************************************)
\* The gene list has been built in the current cycle.
GenesBuilt ==
    \/ pc \in {"coerce", "filter", "ready"}
    \/ pc = "failed" /\ view[Len(view)].at = "pager"

\* The positions of the DEG rows whose symbol is neither missing nor "nan".
Named ==
    {j \in 1..Len(deg_results.rows) :
        /\ deg_results.rows[j][SymbolColumn] # NaN
        /\ deg_results.rows[j][SymbolColumn] # Str(<<"n", "a", "n">>)}

\* C2: the gene list is exactly the symbol column with the missing and the
\* "nan" entries removed: no element is "nan" or missing, the others keep
\* their row order, and duplicates stay.
C2_GeneList ==
    GenesBuilt =>
        /\ Len(genes) = Cardinality(Named)
        /\ \A i \in 1..Len(genes) :
              /\ genes[i] = deg_results.rows[Nth(Named, i)][SymbolColumn]
              /\ genes[i] # NaN
              /\ genes[i] # Str(<<"n", "a", "n">>)

\* A file of three rows, the middle one without a symbol, the other two
\* with the same symbol.
C2_Witness ==
    /\ GenesBuilt
    /\ Len(deg_results.rows) = 3
    /\ deg_results.rows[2][SymbolColumn] = NaN
    /\ genes = <<Str(TP53), Str(TP53)>>

\* C9: the genes parameter of the form holds no space and no plus sign.
C9_NoSpaceNoPlus ==
    (GenesBuilt /\ params # None) =>
        \A i \in 1..Len(params.genes) : params.genes[i] \notin {" ", "+"}

(***************************************************************************)
(* Properties of the clinical data, lines 12-27 and 71-74.                 *)
(***************************************************************************)
\* The clinical step of the current cycle has returned a frame.
ClinicalLoaded == pc \notin {"idle", "clinical"} /\ clinical_data.t = "DataFrame"

\* The cells of the third line of the response body, the header once the
\* two preamble lines are gone.
HeaderCells == Split(Split(clinical_response.text, "\n")[3], ",")

\* C8: no frame that load_demographic_data returns, and no table the view
\* shows, has an Age(in years) column.  A returned frame has the columns of
\* the third line of the body without the age column, which that line held;
\* a cycle whose clinical step fails shows no clinical table.
C8_AgeNeverShown ==
    /\ \A i \in 1..Len(view) :
          view[i].kind = "dataframe" => AgeColumn \notin Range(view[i].data.columns)
    /\ ClinicalLoaded =>
          /\ AgeColumn \notin Range(clinical_data.columns)
          /\ Len(Split(clinical_response.text, "\n")) >= 3
          /\ AgeColumn \in Range(HeaderCells)
          /\ clinical_data.columns = Without(HeaderCells, AgeColumn)
          /\ Rendered("dataframe", "clinical_data").data = clinical_data
    /\ (pc = "failed" /\ clinical_data = None) =>
          /\ ~Shows("dataframe", "clinical_data")
          /\ view[Len(view)].kind = "exception"

\* A response with a subject under a header that has the age column: the
\* table is shown with the subject and without the column.
C8_Witness ==
    /\ ClinicalLoaded
    /\ Shows("dataframe", "clinical_data")
    /\ Len(clinical_data.rows) = 1
    /\ Len(HeaderCells) = 2
    /\ Len(clinical_data.columns) = 1

(***************************************************************************)
(* Properties of the cache of load_deg_results and of the transfers a      *)
(* cycle makes.                                                            *)
(***************************************************************************)
ReadsFile(log) ==
    \E i \in 1..Len(log) : log[i] = "read JX12T_sig_DE_Results.txt"

\* C3 as stated: over the life of the process the body of load_deg_results
\* executes at most once; once it has executed, no later cycle executes it.
C3_BodyAtMostOnce ==
    [][deg_body_ran => ~(pc = "deg" /\ ~ReadsFile(io) /\ ReadsFile(io'))]_vars

\* C3, amended: the cache entry is written at most once, by a body that
\* returned, and is never invalidated; once it is there, every cycle takes
\* the DEG results from it without executing the body or reading the file,
\* whatever the file has become; a body that raised left no entry and is
\* executed again by the next cycle.  Every cycle that passes the clinical
\* step issues the GET, and every cycle that passes run_pager issues the
\* POST.
C3_CacheWrittenOnce ==
    [][/\ cache.t = "DataFrame" => cache' = cache
       /\ cache' # cache =>
             /\ pc = "deg"
             /\ cache = None
             /\ cache' = load_deg_results(deg_file)
             /\ io' = Append(io, "read JX12T_sig_DE_Results.txt")
       /\ (pc = "deg" /\ pc' # "deg" /\ cache.t = "DataFrame") =>
             /\ io' = io
             /\ deg_body_ran' = deg_body_ran
             /\ pc' = "pager"
             /\ deg_results' = cache
       /\ (pc = "deg" /\ pc' # "deg" /\ cache = None) =>
             /\ io' = Append(io, "read JX12T_sig_DE_Results.txt")
             /\ deg_body_ran'
             /\ pc' = "failed" => cache' = None
       /\ (pc = "clinical" /\ pc' # "clinical") =>
             io' = Append(io, "GET getalli2b2demographics")
       /\ (pc = "pager" /\ pc' = "coerce") => io' = Append(io, "POST pagerapi")
      ]_vars

\* A cycle served from the cache although the file on disk no longer gives
\* the cached results, and which has already fetched the clinical data anew.
C3_Witness ==
    /\ pc = "pager"
    /\ deg_results = cache
    /\ ~ReadsFile(io)
    /\ io = <<"GET getalli2b2demographics">>
    /\ load_deg_results(deg_file) # cache

(***************************************************************************)
(* Properties of a cycle that fails.                                       *)
(***************************************************************************)
\* The step at which the current cycle failed.
FailedAt == view[Len(view)].at

Answered == pager_response # None /\ pager_response.ok

\* C6: an answer with a status outside 200..299, or with a body that is not
\* JSON, fails the cycle at run_pager and gives no enrichment records.
C6_Non2xxFatal ==
    (Answered /\ (pager_response.status \notin 200..299 \/ ~pager_response.body.json)) =>
        /\ pc = "failed"
        /\ FailedAt = "pager"
        /\ pager_output = None

\* C10: an empty JSON array never gets a cycle to ready: the cycle fails at
\* the coercion, with no range slider, filtered table, row count or export
\* link; a cycle gets past the coercion only with at least one record.
C10_EmptyNeverReady ==
    /\ (Answered /\ pager_response.body.json /\ pager_response.body.array = << >>) =>
          /\ pc \in {"coerce", "failed"}
          /\ pc = "failed" => FailedAt = "coerce"
          /\ ~HasWidget("GS_SIZE Range")
          /\ ~Shows("dataframe", "filtered_output")
          /\ ~Shows("markdown", "row_count")
          /\ ~Shows("markdown", "href")
          /\ filtered_output = None /\ href = None
    /\ pc \in {"filter", "ready"} => pager_output.rows # << >>

\* A cycle with no source selected that failed on an empty array.
C10_Witness ==
    /\ pc = "failed"
    /\ sources = << >>
    /\ Answered
    /\ pager_response.status = 200
    /\ pager_response.body.json
    /\ pager_response.body.array = << >>
    /\ FailedAt = "coerce"

=============================================================================
